---- MODULE Spec2Model ----
(***************************************************************************)
(* go-cache: the cache key builder (src/config.ts) and the post-job save   *)
(* step (save.ts), with the restore step that runs before it.              *)
(*                                                                         *)
(* Text is a sequence of one-character strings, so that prefix matching,   *)
(* whitespace splitting, case folding, collation and concatenation are     *)
(* computed character by character as the code computes them.              *)
(***************************************************************************)
EXTENDS Integers, Sequences, FiniteSets, TLC

VARIABLES
    inputs,      \* the action inputs read through core.getInput
    env,         \* process.env, in the host's enumeration order
    files,       \* the file system: path -> content of the files that exist
    goOutput,    \* what `go env -json` reports, or that it cannot be run
    built,       \* the outcome of the most recent CacheConfig.new()
    prev,        \* the outcome of the CacheConfig.new() run before it
    lastOp,      \* how the input of the most recent run differs from the one before
    pc,          \* position of the job: "restore", "job", "post", "done"
    provider,    \* the cache provider: whether its feature is available
    store,       \* the persisted state store (STATE_* of the runner)
    restored,    \* what provider.restore returned in the restore step
    phase1,      \* the CacheConfig the restore step built (history)
    jobFailed,   \* whether the invoking job has failed before the post step
    post         \* what the post step (save.ts run) did

vars == <<inputs, env, files, goOutput, built, prev, lastOp, pc, provider,
          store, restored, phase1, jobFailed, post>>

keyVars == <<inputs, env, files, goOutput, built, prev, lastOp>>
jobVars == <<pc, provider, store, restored, phase1, jobFailed, post>>

(***************************************************************************)
(* Bounds of the model.                                                    *)
(***************************************************************************)
MaxEnv == 2        \* most variables in process.env
MaxModules == 2    \* most lines in the `modules` input

(***************************************************************************)
(* Text.                                                                   *)
(***************************************************************************)
Range(s) == {s[i] : i \in 1..Len(s)}

\* String.prototype.startsWith
StartsWith(s, p) == Len(p) <= Len(s) /\ SubSeq(s, 1, Len(p)) = p

LowerLetters == <<"a", "b", "c", "d", "e", "f", "g", "h", "i", "j", "k", "l", "m",
                  "n", "o", "p", "q", "r", "s", "t", "u", "v", "w", "x", "y", "z">>
UpperLetters == <<"A", "B", "C", "D", "E", "F", "G", "H", "I", "J", "K", "L", "M",
                  "N", "O", "P", "Q", "R", "S", "T", "U", "V", "W", "X", "Y", "Z">>

UpperSet == Range(UpperLetters)

IsUpper(c) == c \in UpperSet

\* the lower-case letter of every upper-case letter
LowerOf ==
    [c \in Range(UpperLetters) |->
        LowerLetters[CHOOSE i \in 1..Len(UpperLetters) : UpperLetters[i] = c]]

LowerChar(c) == IF c \in DOMAIN LowerOf THEN LowerOf[c] ELSE c

\* String.prototype.toLowerCase
toLowerCase(s) == [i \in 1..Len(s) |-> LowerChar(s[i])]

\* the upper-case letter of every lower-case letter
UpperOf ==
    [c \in Range(LowerLetters) |->
        UpperLetters[CHOOSE i \in 1..Len(LowerLetters) : LowerLetters[i] = c]]

UpperChar(c) == IF c \in DOMAIN UpperOf THEN UpperOf[c] ELSE c

\* String.prototype.toUpperCase
toUpperCase(s) == [i \in 1..Len(s) |-> UpperChar(s[i])]

\* The characters /\s/ matches.
Whitespace == {" ", "\n", "\t"}

RECURSIVE TrimStart(_)
TrimStart(s) ==
    IF s # <<>> /\ Head(s) \in Whitespace THEN TrimStart(Tail(s)) ELSE s

RECURSIVE TrimEnd(_)
TrimEnd(s) ==
    IF s # <<>> /\ s[Len(s)] \in Whitespace
    THEN TrimEnd(SubSeq(s, 1, Len(s) - 1))
    ELSE s

\* String.prototype.trim
trim(s) == TrimEnd(TrimStart(s))

\* String.prototype.split on a set of one-character separators: every
\* separator ends a piece, so n separators give n + 1 pieces (some empty).
RECURSIVE SplitAt(_, _, _)
SplitAt(s, seps, piece) ==
    IF s = <<>> THEN <<piece>>
    ELSE IF Head(s) \in seps
         THEN <<piece>> \o SplitAt(Tail(s), seps, <<>>)
         ELSE SplitAt(Tail(s), seps, Append(piece, Head(s)))

\* s.split("\n")
SplitLines(s) == SplitAt(s, {"\n"}, <<>>)

\* s.split(/\s+/).filter(Boolean): a run of whitespace yields empty pieces
\* when split one character at a time, and filter(Boolean) drops them.
SplitWords(s) == SelectSeq(SplitAt(s, Whitespace, <<>>), LAMBDA w : w # <<>>)

RECURSIVE Join(_, _)
Join(pieces, sep) ==
    IF pieces = <<>> THEN <<>>
    ELSE IF Len(pieces) = 1 THEN pieces[1]
    ELSE pieces[1] \o sep \o Join(Tail(pieces), sep)

RECURSIVE Flatten(_)
Flatten(pieces) ==
    IF pieces = <<>> THEN <<>> ELSE Head(pieces) \o Flatten(Tail(pieces))

(***************************************************************************)
(* String.prototype.localeCompare under the root collation: punctuation    *)
(* sorts before digits and digits before letters; letters are compared     *)
(* without regard to case first, and only when the texts are equal up to   *)
(* case does the first case difference decide, lower case first.           *)
(***************************************************************************)
CollationOrder == <<" ", "_", "-", ".", "/", "=", "0", "1">> \o LowerLetters

\* the rank of every character, an upper-case letter ranking as its
\* lower-case letter
PrimaryWeights ==
    [c \in Range(CollationOrder) \cup Range(UpperLetters) |->
        CHOOSE i \in 1..Len(CollationOrder) : CollationOrder[i] = LowerChar(c)]

PrimaryWeight(c) == PrimaryWeights[c]

RECURSIVE ComparePrimary(_, _)
ComparePrimary(a, b) ==
    IF a = <<>> /\ b = <<>> THEN 0
    ELSE IF a = <<>> THEN -1
    ELSE IF b = <<>> THEN 1
    ELSE IF PrimaryWeight(Head(a)) < PrimaryWeight(Head(b)) THEN -1
    ELSE IF PrimaryWeight(Head(a)) > PrimaryWeight(Head(b)) THEN 1
    ELSE ComparePrimary(Tail(a), Tail(b))

\* Called on texts that are equal up to case, hence of equal length.
RECURSIVE CompareCase(_, _)
CompareCase(a, b) ==
    IF a = <<>> \/ b = <<>> THEN 0
    ELSE IF ~IsUpper(Head(a)) /\ IsUpper(Head(b)) THEN -1
    ELSE IF IsUpper(Head(a)) /\ ~IsUpper(Head(b)) THEN 1
    ELSE CompareCase(Tail(a), Tail(b))

localeCompare(a, b) ==
    LET primary == ComparePrimary(a, b)
    IN  IF primary # 0 THEN primary ELSE CompareCase(a, b)

\* Array.prototype.sort with the comparator (a, b) => a.localeCompare(b).
\* The sort is stable: an element ends after the elements that compare
\* smaller and after the equal ones that came before it.
InsertSorted(sorted, x) ==
    SelectSeq(sorted, LAMBDA y : localeCompare(y, x) <= 0)
        \o <<x>> \o SelectSeq(sorted, LAMBDA y : localeCompare(y, x) > 0)

RECURSIVE SortPrefix(_, _)
SortPrefix(a, n) ==
    IF n = 0 THEN <<>> ELSE InsertSorted(SortPrefix(a, n - 1), a[n])

SortByLocale(a) == SortPrefix(a, Len(a))

\* the elements of a at the indices in keep, in their order
AtIndices(a, keep) ==
    [k \in 1..Cardinality(keep) |->
        a[CHOOSE i \in keep : Cardinality({j \in keep : j < i}) = k - 1]]

\* The reduce of sort_and_uniq: an element is pushed unless it compares
\* equal to the last one pushed, which in a sorted array is the case exactly
\* when it compares equal to the element before it.
UniqAdjacent(a) ==
    AtIndices(a, {i \in 1..Len(a) : i = 1 \/ localeCompare(a[i - 1], a[i]) # 0})

sort_and_uniq(a) == UniqAdjacent(SortByLocale(a))

(***************************************************************************)
(* Paths (posix): path.resolve and path.join normalise away empty and "."  *)
(* segments and resolve ".." against the segments before it.               *)
(***************************************************************************)
Slash == <<"/">>
Dot == <<".">>
DotDot == <<".", ".">>

\* process.cwd()
Cwd == <<"/", "w">>

\* os.homedir()
HOME == <<"/", "h">>

RECURSIVE NormalizeSegments(_, _)
NormalizeSegments(segs, acc) ==
    IF segs = <<>> THEN acc
    ELSE IF Head(segs) = <<>> \/ Head(segs) = Dot
         THEN NormalizeSegments(Tail(segs), acc)
    ELSE IF Head(segs) = DotDot
         THEN NormalizeSegments(Tail(segs),
                                IF acc = <<>> THEN acc
                                ELSE SubSeq(acc, 1, Len(acc) - 1))
    ELSE NormalizeSegments(Tail(segs), Append(acc, Head(segs)))

Segments(p) == SplitAt(p, {"/"}, <<>>)

AbsolutePath(segs) == Slash \o Join(NormalizeSegments(segs, <<>>), Slash)

\* path.resolve(p): relative to the working directory unless p is absolute
path_resolve(p) ==
    IF StartsWith(p, Slash)
    THEN AbsolutePath(Segments(p))
    ELSE AbsolutePath(Segments(Cwd) \o Segments(p))

\* path.join(a, b, ...) for an absolute first part
path_join(parts) == AbsolutePath(Segments(Join(parts, Slash)))

(***************************************************************************)
(* Hashing.  A hasher is the stream of everything fed to it by update().   *)
(* SHA-1 is taken to be collision free on the streams of the model: hex    *)
(* digit i of the digest of a stream is the symbol <<"sha1", i>> \o stream,*)
(* so two truncated digests are equal exactly when they have the same      *)
(* length and come from the same stream.  A key is a sequence of symbols:  *)
(* a literal character c is the symbol <<c>>.                              *)
(***************************************************************************)
HASH_LENGTH == 8
SHA1_HEX_LENGTH == 40

Lit(s) == [i \in 1..Len(s) |-> <<s[i]>>]

HexDigest(hasher) == [i \in 1..SHA1_HEX_LENGTH |-> <<"sha1", i>> \o hasher]

\* hasher.digest("hex").substring(0, HASH_LENGTH)
digest(hasher) == SubSeq(HexDigest(hasher), 1, HASH_LENGTH)

(***************************************************************************)
(* process.env is a sequence of <<name, value>> pairs with distinct names, *)
(* in the order Object.keys enumerates them.                               *)
(***************************************************************************)
EnvNames(e) == [i \in 1..Len(e) |-> e[i][1]]

EnvHas(e, name) == \E i \in 1..Len(e) : e[i][1] = name

\* process.env[name]; the empty text stands for undefined, which the code
\* only ever tests for truthiness, as it does the empty string
EnvGet(e, name) ==
    IF EnvHas(e, name)
    THEN e[CHOOSE i \in 1..Len(e) : e[i][1] = name][2]
    ELSE <<>>

\* The inputs of the action, in the order it declares them, and their names
\* as text.
InputOrder == <<"prefix-key", "shared-key", "key", "env-vars", "modules",
                "cache-directories", "cache-on-failure", "save-if", "cache-bin">>
InputNames == Range(InputOrder)
InputText ==
    ("prefix-key" :> <<"p", "r", "e", "f", "i", "x", "-", "k", "e", "y">>)
    @@ ("shared-key" :> <<"s", "h", "a", "r", "e", "d", "-", "k", "e", "y">>)
    @@ ("key" :> <<"k", "e", "y">>)
    @@ ("env-vars" :> <<"e", "n", "v", "-", "v", "a", "r", "s">>)
    @@ ("modules" :> <<"m", "o", "d", "u", "l", "e", "s">>)
    @@ ("cache-directories" :> <<"c", "a", "c", "h", "e", "-", "d", "i", "r", "e",
                                 "c", "t", "o", "r", "i", "e", "s">>)
    @@ ("cache-on-failure" :> <<"c", "a", "c", "h", "e", "-", "o", "n", "-", "f",
                                "a", "i", "l", "u", "r", "e">>)
    @@ ("save-if" :> <<"s", "a", "v", "e", "-", "i", "f">>)
    @@ ("cache-bin" :> <<"c", "a", "c", "h", "e", "-", "b", "i", "n">>)

\* The runner hands an input to the step as the environment variable
\* INPUT_<NAME>, which is where core.getInput reads it.
InputVars ==
    [n \in InputNames |->
        <<"I", "N", "P", "U", "T", "_">> \o toUpperCase(InputText[n])]

InputVar(name) == InputVars[name]

\* process.env of a step: the variables of the inputs that were given a
\* value, then the variables `e` of the job
ProcessEnv(in, e) ==
    SelectSeq([i \in 1..Len(InputOrder) |->
                  <<InputVar(InputOrder[i]), in[InputOrder[i]]>>],
              LAMBDA pair : pair[2] # <<>>) \o e

\* core.getInput(name): the value of INPUT_<NAME>, the empty text when
\* unset, with surrounding whitespace trimmed
getInput(in, name) == trim(EnvGet(ProcessEnv(in, <<>>), InputVar(name)))

GITHUB_JOB == <<"G", "I", "T", "H", "U", "B", "_", "J", "O", "B">>
RUNNER_OS == <<"R", "U", "N", "N", "E", "R", "_", "O", "S">>

(***************************************************************************)
(* GoEnv.new(): `go env -json` with defaults for the unset directories.    *)
(***************************************************************************)
GoEnv_new(output) ==
    LET gopath == IF output.GOPATH = <<>>
                  THEN path_join(<<HOME, <<"g", "o">>>>)
                  ELSE output.GOPATH
        gobin == IF output.GOBIN = <<>>
                 THEN path_join(<<gopath, <<"b", "i", "n">>>>)
                 ELSE output.GOBIN
        gomodcache == IF output.GOMODCACHE = <<>>
                      THEN path_join(<<gopath, <<"p", "k", "g">>, <<"m", "o", "d">>>>)
                      ELSE output.GOMODCACHE
        gocache == IF output.GOCACHE = <<>>
                   THEN path_join(<<HOME, <<".", "c", "a", "c", "h", "e">>,
                                    <<"g", "o", "-", "b", "u", "i", "l", "d">>>>)
                   ELSE output.GOCACHE
    IN  [output EXCEPT !.GOPATH = gopath, !.GOBIN = gobin,
                       !.GOMODCACHE = gomodcache, !.GOCACHE = gocache]

(***************************************************************************)
(* CacheConfig.                                                            *)
(***************************************************************************)
\* the fields of `new CacheConfig()`
EmptyGoEnv ==
    [GOARCH |-> <<>>, GOBIN |-> <<>>, GOCACHE |-> <<>>, GOENV |-> <<>>,
     GOHOSTARCH |-> <<>>, GOHOSTOS |-> <<>>, GOMODCACHE |-> <<>>, GOOS |-> <<>>,
     GOPATH |-> <<>>, GOVERSION |-> <<>>]

EmptyConfig ==
    [goEnv |-> EmptyGoEnv, cachePaths |-> <<>>, cacheKey |-> <<>>, restoreKey |-> <<>>,
     cacheBin |-> TRUE, modules |-> <<>>, keyPrefix |-> <<>>, keyGo |-> <<>>,
     keyEnvs |-> <<>>, keyFiles |-> <<>>]

\* os.type() and os.arch() of the runner
Runner == [type |-> <<"L", "i", "n", "u", "x">>, arch |-> <<"x", "6", "4">>]

DefaultPrefix == <<"v", "0", "-", "g", "o">>
Dash == <<"-">>
GoMod == <<"g", "o", ".", "m", "o", "d">>
TrueText == <<"t", "r", "u", "e">>

\* the builtin env-var prefixes
BuiltinEnvPrefixes ==
    << <<"C", "C">>, <<"C", "F", "L", "A", "G", "S">>, <<"C", "X", "X">>,
       <<"C", "M", "A", "K", "E">>, <<"G", "O">>, <<"C", "G", "O">> >>

\* envPrefixes: the builtin prefixes and the words of the `env-vars` input
EnvPrefixes(in) == BuiltinEnvPrefixes \o SplitWords(getInput(in, "env-vars"))

\* envPrefixes.some((prefix) => key.startsWith(prefix))
MatchesPrefix(prefixes, name) ==
    \E i \in 1..Len(prefixes) : StartsWith(name, prefixes[i])

\* KeyPrefix with the job appended whether or not a shared key is given
KeyPrefix_JobAlways(in, e, runner) ==
    LET base == IF getInput(in, "prefix-key") # <<>>
                THEN getInput(in, "prefix-key") ELSE DefaultPrefix
        sharedKey == getInput(in, "shared-key")
        inputKey == getInput(in, "key")
        job == EnvGet(e, GITHUB_JOB)
        named == (IF sharedKey # <<>> THEN base \o Dash \o sharedKey
                  ELSE IF inputKey # <<>> THEN base \o Dash \o inputKey ELSE base)
                 \o (IF job # <<>> THEN Dash \o job ELSE <<>>)
    IN  named \o Dash \o runner.type \o Dash \o runner.arch

\* the key prefix: `prefix-key`, then `shared-key` or else `key` and the
\* job, then the runner's OS and architecture
KeyPrefix(in, e, runner) ==
    LET base == IF getInput(in, "prefix-key") # <<>>
                THEN getInput(in, "prefix-key") ELSE DefaultPrefix
        sharedKey == getInput(in, "shared-key")
        inputKey == getInput(in, "key")
        job == EnvGet(e, GITHUB_JOB)
        named == IF sharedKey # <<>>
                 THEN base \o Dash \o sharedKey
                 ELSE (IF inputKey # <<>> THEN base \o Dash \o inputKey ELSE base)
                      \o (IF job # <<>> THEN Dash \o job ELSE <<>>)
    IN  named \o Dash \o runner.type \o Dash \o runner.arch

\* KeyEnvs without the test that the variable has a value
KeyEnvs_NoValueCheck(in, e) ==
    LET prefixes == EnvPrefixes(in)
    IN  SelectSeq(SortByLocale(EnvNames(e)),
                  LAMBDA name : MatchesPrefix(prefixes, name))

\* the names of process.env, sorted, that match a prefix and have a value
KeyEnvs(in, e) ==
    LET prefixes == EnvPrefixes(in)
    IN  SelectSeq(SortByLocale(EnvNames(e)),
                  LAMBDA name : MatchesPrefix(prefixes, name)
                                /\ EnvGet(e, name) # <<>>)

\* everything the environment hasher is fed
EnvHasher(keyGo, e, keyEnvs) ==
    keyGo \o Flatten([i \in 1..Len(keyEnvs) |->
                         keyEnvs[i] \o <<"=">> \o EnvGet(e, keyEnvs[i])])

\* the module roots: the lines of the `modules` input, resolved
ModuleRoots(in) ==
    LET modulesInput == IF getInput(in, "modules") # <<>>
                        THEN getInput(in, "modules") ELSE Dot
        lines == SplitLines(trim(modulesInput))
    IN  [i \in 1..Len(lines) |-> path_resolve(lines[i])]

\* the go.mod of every module root, before sorting
ManifestPaths(modules) ==
    [i \in 1..Len(modules) |-> path_join(<<modules[i], GoMod>>)]

\* everything the lockfile hasher is fed: fs.createReadStream of a file
\* yields its bytes
FilesHasher(fs, keyFiles) == Flatten([i \in 1..Len(keyFiles) |-> fs[keyFiles[i]]])

\* CacheConfig.new().  `go env` failing, or fs.createReadStream of a file
\* that does not exist, rejects: no configuration is returned.
CacheConfig_new(in, e, fs, go, runner) ==
    IF ~go.ok THEN [ok |-> FALSE, error |-> "go env", config |-> EmptyConfig]
    ELSE
    LET goEnv == GoEnv_new(go.json)
        penv == ProcessEnv(in, e)
        keyPrefix == KeyPrefix(in, penv, runner)
        keyGo == goEnv.GOVERSION \o <<" ">> \o goEnv.GOHOSTARCH
                     \o <<" ">> \o goEnv.GOHOSTARCH
        keyEnvs == KeyEnvs(in, penv)
        restoreKey == Lit(keyPrefix) \o Lit(Dash)
                          \o digest(EnvHasher(keyGo, penv, keyEnvs))
        cacheBin == toLowerCase(getInput(in, "cache-bin")) = TrueText
        modules == ModuleRoots(in)
        keyFiles == sort_and_uniq(ManifestPaths(modules))
        missing == {i \in 1..Len(keyFiles) : keyFiles[i] \notin DOMAIN fs}
        goPaths == <<goEnv.GOCACHE, goEnv.GOMODCACHE>>
    IN  IF missing # {}
        THEN [ok |-> FALSE, error |-> "ENOENT", config |-> EmptyConfig]
        ELSE [ok |-> TRUE, error |-> "",
              config |->
                [goEnv |-> EmptyGoEnv,
                 cachePaths |->
                     (IF cacheBin THEN <<goEnv.GOBIN>> \o goPaths ELSE goPaths)
                     \o SplitWords(trim(getInput(in, "cache-directories"))),
                 cacheKey |-> restoreKey \o Lit(Dash)
                                  \o digest(FilesHasher(fs, keyFiles)),
                 restoreKey |-> restoreKey,
                 cacheBin |-> cacheBin,
                 modules |-> <<>>,
                 keyPrefix |-> keyPrefix,
                 keyGo |-> keyGo,
                 keyEnvs |-> keyEnvs,
                 keyFiles |-> sort_and_uniq(keyFiles)]]

(***************************************************************************)
(* The persisted state store and the post step (save.ts).                  *)
(***************************************************************************)
STATE_CONFIG == "GO_CACHE_CONFIG"

\* core.saveState(name, value)
saveState(st, name, value) == (name :> value) @@ st

\* core.getState(name): the empty text when nothing was saved under name
getState(st, name) == IF name \in DOMAIN st THEN st[name] ELSE <<>>

\* The properties of a CacheConfig, in declaration order.
ConfigFields == <<"goEnv", "cachePaths", "cacheKey", "restoreKey", "cacheBin",
                  "modules", "keyPrefix", "keyGo", "keyEnvs", "keyFiles">>

\* JSON.stringify of a CacheConfig: its properties, one after the other.
\* The text of an object is never empty.
JSON_stringify(config) ==
    [i \in 1..Len(ConfigFields) |-> <<ConfigFields[i], config[ConfigFields[i]]>>]

\* JSON.parse: the object with the properties the text lists
JSON_parse(text) ==
    [f \in {text[i][1] : i \in 1..Len(text)} |->
        text[CHOOSE i \in 1..Len(text) : text[i][1] = f][2]]

\* Object.assign(target, source)
ObjectAssign(target, source) ==
    [f \in DOMAIN target \cup DOMAIN source |->
        IF f \in DOMAIN source THEN source[f] ELSE target[f]]

\* CacheConfig.saveState()
CacheConfig_saveState(st, config) ==
    saveState(st, STATE_CONFIG, JSON_stringify(config))

NotFoundError == "Cache configuration not found in state"
SaveError == "saveCache failed"

\* fromState that builds the configuration anew from the inputs and the
\* environment of the post step instead of reading the persisted one
fromState_Recompute(st) ==
    LET source == getState(st, STATE_CONFIG)
    IN  IF source = <<>>
        THEN [ok |-> FALSE, error |-> NotFoundError, config |-> EmptyConfig]
        ELSE CacheConfig_new(inputs, env, files, goOutput, Runner)

\* CacheConfig.fromState()
fromState(st) ==
    LET source == getState(st, STATE_CONFIG)
    IN  IF source = <<>>
        THEN [ok |-> FALSE, error |-> NotFoundError, config |-> EmptyConfig]
        ELSE [ok |-> TRUE, error |-> "",
              config |-> ObjectAssign(EmptyConfig, JSON_parse(source))]

\* isCacheUpToDate comparing the state with undefined, which getState
\* never returns
isCacheUpToDate_Undefined(st) == FALSE

\* isCacheUpToDate()
isCacheUpToDate(st) == getState(st, STATE_CONFIG) = <<>>

\* reportError(e): the error is reported as a warning
reportError(e) == <<[level |-> "warning", message |-> e]>>

\* the gate with `||` for `&&`
SaveGate_Either(available, saveIf) ==
    LET save == IF toLowerCase(saveIf) # <<>> THEN toLowerCase(saveIf) ELSE TrueText
    IN  available \/ save = TrueText

\* cacheProvider.cache.isFeatureAvailable() && save === "true"
SaveGate(available, saveIf) ==
    LET save == IF toLowerCase(saveIf) # <<>> THEN toLowerCase(saveIf) ELSE TrueText
    IN  available /\ save = TrueText

MacOS == <<"m", "a", "c", "O", "S">>

\* macOsWorkaround(): purge is run and its failure swallowed
macOsWorkaround(purgeThrows) == <<[command |-> "purge", threw |-> purgeThrows]>>

NotRun ==
    [ran |-> FALSE, stateReads |-> 0, info |-> <<>>, purgeCalls |-> <<>>,
     saveCalls |-> <<>>, reported |-> <<>>, ending |-> "none", exitCode |-> 0,
     unhandled |-> FALSE]

\* what run() does once the configuration is loaded: the workaround on
\* macOS, then saveCache, whose failure is caught and reported
SaveLoaded(config, e, saveThrows, purgeThrows) ==
    [NotRun EXCEPT
       !.ran = TRUE, !.stateReads = 2,
       !.info = <<"... Saving cache ...">>,
       !.purgeCalls = IF EnvGet(e, RUNNER_OS) = MacOS
                      THEN macOsWorkaround(purgeThrows) ELSE <<>>,
       !.saveCalls = <<[paths |-> config.cachePaths, key |-> config.cacheKey,
                        threw |-> saveThrows]>>,
       !.reported = IF saveThrows THEN reportError(SaveError) ELSE <<>>,
       !.ending = "process.exit"]

\* run() without the try/catch: a failing saveCache rejects run(), and the
\* unhandled rejection ends the process with exit code 1
run_Uncaught(in, e, st, available, saveThrows, purgeThrows) ==
    IF ~SaveGate(available, getInput(in, "save-if"))
    THEN [NotRun EXCEPT !.ran = TRUE, !.ending = "return"]
    ELSE IF isCacheUpToDate(st)
    THEN [NotRun EXCEPT !.ran = TRUE, !.stateReads = 1,
                        !.info = <<"Cache up-to-date.">>, !.ending = "return"]
    ELSE IF ~fromState(st).ok
    THEN [NotRun EXCEPT !.ran = TRUE, !.stateReads = 2, !.ending = "rejected",
                        !.exitCode = 1, !.unhandled = TRUE]
    ELSE LET done == SaveLoaded(fromState(st).config, e, saveThrows, purgeThrows)
         IN  IF saveThrows
             THEN [done EXCEPT !.reported = <<>>, !.ending = "rejected",
                               !.exitCode = 1, !.unhandled = TRUE]
             ELSE done

\* run() building the configuration anew with CacheConfig.new() and saving
\* it, whatever the restore step persisted
run_Rebuild(in, e, st, available, saveThrows, purgeThrows) ==
    IF ~SaveGate(available, getInput(in, "save-if"))
    THEN [NotRun EXCEPT !.ran = TRUE, !.ending = "return"]
    ELSE LET made == CacheConfig_new(in, e, files, goOutput, Runner)
         IN  IF ~made.ok
             THEN [NotRun EXCEPT !.ran = TRUE, !.reported = reportError(made.error),
                                 !.ending = "process.exit"]
             ELSE [SaveLoaded(made.config, e, saveThrows, purgeThrows)
                     EXCEPT !.stateReads = 0]

\* run() of the post step
run(in, e, st, available, saveThrows, purgeThrows) ==
    IF ~SaveGate(available, getInput(in, "save-if"))
    THEN [NotRun EXCEPT !.ran = TRUE, !.ending = "return"]
    ELSE IF isCacheUpToDate(st)
    THEN [NotRun EXCEPT !.ran = TRUE, !.stateReads = 1,
                        !.info = <<"Cache up-to-date.">>, !.ending = "return"]
    ELSE IF ~fromState(st).ok
    THEN [NotRun EXCEPT !.ran = TRUE, !.stateReads = 2,
                        !.reported = reportError(fromState(st).error),
                        !.ending = "process.exit"]
    ELSE SaveLoaded(fromState(st).config, e, saveThrows, purgeThrows)

(***************************************************************************)
(* The inputs the model draws from.                                        *)
(***************************************************************************)
\* every input left empty, but `cache-bin`, whose declared default is "true"
DefaultInputs ==
    [n \in InputNames |-> IF n = "cache-bin" THEN TrueText ELSE <<>>]

CC == <<"C", "C">>
FOO == <<"F", "O", "O">>
EnvNameUniverse == {GITHUB_JOB, CC, FOO}
EnvValues == {<<>>, <<"a">>, <<"b">>}

DistinctNames(e) == \A i, j \in 1..Len(e) : e[i][1] = e[j][1] => i = j

Envs ==
    UNION {{e \in [1..n -> EnvNameUniverse \X EnvValues] : DistinctNames(e)}
           : n \in 0..MaxEnv}

EnvVarsInputs == {<<>>, <<"G", "I", "T", "H", "U", "B", " ", "F", "O", "O">>,
                  <<"I", "N", "P", "U", "T", "_", "K">>}

KeyInputs ==
    {[DefaultInputs EXCEPT !["prefix-key"] = p, !["shared-key"] = s,
                           !["key"] = k, !["env-vars"] = v]
       : p \in {<<>>, <<"p">>}, s \in {<<>>, <<"s">>},
         k \in {<<>>, <<"k">>}, v \in EnvVarsInputs}

ModuleLines == {<<".">>, <<"a">>, <<".", "/", "a">>, <<"a", " ">>}
NewLine == <<"\n">>

ModuleInputs ==
    {<<>>} \cup UNION {{Join(l, NewLine) : l \in [1..n -> ModuleLines]}
                       : n \in 1..MaxModules}

RootManifest == <<"/", "w", "/", "g", "o", ".", "m", "o", "d">>
SubManifest == <<"/", "w", "/", "a", "/", "g", "o", ".", "m", "o", "d">>
AllManifests == (RootManifest :> <<"x">>) @@ (SubManifest :> <<"y">>)

FileSystems == {[p \in D |-> AllManifests[p]] : D \in SUBSET DOMAIN AllManifests}

GoReported ==
    [ok |-> TRUE,
     json |-> [GOARCH |-> <<"x">>, GOBIN |-> <<>>, GOCACHE |-> <<>>, GOENV |-> <<>>,
               GOHOSTARCH |-> <<"x">>, GOHOSTOS |-> <<"l">>, GOMODCACHE |-> <<>>,
               GOOS |-> <<"l">>, GOPATH |-> <<"/", "g">>,
               GOVERSION |-> <<"g", "o", "1">>]]
GoUnreachable == [GoReported EXCEPT !.ok = FALSE]

\* Two families of runs: the environment and the key inputs vary over the
\* default module, or the modules and their manifests vary.
EnvScenarios ==
    [inputs : KeyInputs, env : Envs, files : {AllManifests}]
ModuleScenarios ==
    [inputs : {[DefaultInputs EXCEPT !["modules"] = m] : m \in ModuleInputs},
     env : {<<>>}, files : FileSystems]

Build == CacheConfig_new(inputs, env, files, goOutput, Runner)
BuildNext == CacheConfig_new(inputs', env', files', goOutput', Runner)

NotBuilt == [ok |-> FALSE, error |-> "not run", config |-> EmptyConfig]

NoOp == [kind |-> "none", name |-> <<>>, was |-> <<>>, now |-> <<>>,
         wasSet |-> FALSE, nowSet |-> FALSE]

NotRestored == [called |-> FALSE, matched |-> <<>>]

Idle ==
    /\ pc = "idle"
    /\ provider = [available |-> FALSE]
    /\ store = <<>>
    /\ restored = NotRestored
    /\ phase1 = EmptyConfig
    /\ jobFailed = FALSE
    /\ post = NotRun

InitKey ==
    /\ \E w \in EnvScenarios \cup ModuleScenarios :
          inputs = w.inputs /\ env = w.env /\ files = w.files
    /\ goOutput = GoReported
    /\ built = NotBuilt
    /\ prev = NotBuilt
    /\ lastOp = NoOp
    /\ Idle

\* The first run of the builder.
FirstRun ==
    /\ lastOp.kind = "none"
    /\ built' = Build
    /\ lastOp' = [NoOp EXCEPT !.kind = "first"]
    /\ UNCHANGED <<inputs, env, files, goOutput, prev>>
    /\ UNCHANGED jobVars

\* A second run of the builder, on an input that differs from the first
\* run's in one respect.
Rerun(op) ==
    /\ lastOp.kind = "first"
    /\ lastOp' = op
    /\ prev' = built
    /\ built' = BuildNext
    /\ UNCHANGED jobVars

RemoveAt(e, i) == SubSeq(e, 1, i - 1) \o SubSeq(e, i + 1, Len(e))

\* a variable is added to the environment
AddEnv ==
    \E name \in EnvNameUniverse, value \in EnvValues :
        /\ ~EnvHas(env, name)
        /\ Len(env) < MaxEnv
        /\ env' = Append(env, <<name, value>>)
        /\ UNCHANGED <<inputs, files, goOutput>>
        /\ Rerun([kind |-> "env", name |-> name, was |-> <<>>, now |-> value,
                  wasSet |-> FALSE, nowSet |-> TRUE])

\* a variable is removed from the environment
RemoveEnv ==
    \E i \in 1..Len(env) :
        /\ env' = RemoveAt(env, i)
        /\ UNCHANGED <<inputs, files, goOutput>>
        /\ Rerun([kind |-> "env", name |-> env[i][1], was |-> env[i][2],
                  now |-> <<>>, wasSet |-> TRUE, nowSet |-> FALSE])

\* a variable of the environment gets another value
ChangeEnv ==
    \E i \in 1..Len(env), value \in EnvValues :
        /\ value # env[i][2]
        /\ env' = [env EXCEPT ![i] = <<env[i][1], value>>]
        /\ UNCHANGED <<inputs, files, goOutput>>
        /\ Rerun([kind |-> "env", name |-> env[i][1], was |-> env[i][2],
                  now |-> value, wasSet |-> TRUE, nowSet |-> TRUE])

\* the host enumerates two variables in the other order
SwapEnv ==
    \E i \in 1..(Len(env) - 1) :
        /\ env' = [env EXCEPT ![i] = env[i + 1], ![i + 1] = env[i]]
        /\ UNCHANGED <<inputs, files, goOutput>>
        /\ Rerun([NoOp EXCEPT !.kind = "swap-env"])

\* the `key` input gets another value
ChangeKey ==
    \E k \in {<<>>, <<"k">>, <<"j">>} :
        /\ k # inputs["key"]
        /\ inputs' = [inputs EXCEPT !["key"] = k]
        /\ UNCHANGED <<env, files, goOutput>>
        /\ Rerun([NoOp EXCEPT !.kind = "key", !.was = inputs["key"], !.now = k])

ModuleList == SplitLines(inputs["modules"])

\* two lines of the `modules` input change places
PermuteModules ==
    \E i \in 1..(Len(ModuleList) - 1) :
        /\ ModuleList[i] # ModuleList[i + 1]
        /\ inputs' = [inputs EXCEPT !["modules"] =
               Join([ModuleList EXCEPT ![i] = ModuleList[i + 1],
                                       ![i + 1] = ModuleList[i]], NewLine)]
        /\ UNCHANGED <<env, files, goOutput>>
        /\ Rerun([NoOp EXCEPT !.kind = "permute-modules"])

\* a line of the `modules` input is declared once more
DuplicateModule ==
    \E i \in 1..Len(ModuleList) :
        /\ inputs["modules"] # <<>>
        /\ Len(ModuleList) < MaxModules
        /\ inputs' = [inputs EXCEPT !["modules"] =
               Join(Append(ModuleList, ModuleList[i]), NewLine)]
        /\ UNCHANGED <<env, files, goOutput>>
        /\ Rerun([NoOp EXCEPT !.kind = "duplicate-module"])

NextKey ==
    \/ FirstRun
    \/ AddEnv
    \/ RemoveEnv
    \/ ChangeEnv
    \/ SwapEnv
    \/ ChangeKey
    \/ PermuteModules
    \/ DuplicateModule

SpecKey == InitKey /\ [][NextKey]_vars

(***************************************************************************)
(* Claims about the key builder, checked under SpecKey.                    *)
(***************************************************************************)
Compared == lastOp.kind \notin {"none", "first"}
BothBuilt == Compared /\ built.ok /\ prev.ok

SameKeys ==
    /\ built.ok = prev.ok
    /\ built.config.restoreKey = prev.config.restoreKey
    /\ built.config.cacheKey = prev.config.cacheKey

DifferentKeys ==
    /\ built.config.restoreKey # prev.config.restoreKey
    /\ built.config.cacheKey # prev.config.cacheKey

\* the name starts with a builtin prefix or with a word of `env-vars`
Watched(name) ==
    \E p \in Range(BuiltinEnvPrefixes)
               \cup Range(SplitWords(getInput(inputs, "env-vars"))) :
        StartsWith(name, p)

SharedKeyGiven == getInput(inputs, "shared-key") # <<>>

\* the two runs differ in the job identifier and in nothing else
JobChanged ==
    lastOp.kind = "env" /\ lastOp.name = GITHUB_JOB /\ lastOp.was # lastOp.now

\* the two runs differ in the extra key and in nothing else
KeyChanged == lastOp.kind = "key"

\* a variable with a value was added to or removed from the environment
ValueAddedOrRemoved ==
    /\ lastOp.kind = "env"
    /\ lastOp.wasSet # lastOp.nowSet
    /\ (lastOp.was # <<>> \/ lastOp.now # <<>>)

\* a variable that has no value before and none after was added or removed
EmptyAddedOrRemoved ==
    lastOp.kind = "env" /\ lastOp.was = <<>> /\ lastOp.now = <<>>

\* the manifests of the declared modules that do not exist
MissingManifests ==
    {f \in Range(ManifestPaths(ModuleRoots(inputs))) : f \notin DOMAIN files}

\* the cache key the existing manifests alone give
KeyOfExistingManifests ==
    LET existing == SelectSeq(sort_and_uniq(ManifestPaths(ModuleRoots(inputs))),
                              LAMBDA f : f \in DOMAIN files)
        keyGo == <<"g", "o", "1", " ", "x", " ", "x">>
        penv == ProcessEnv(inputs, env)
    IN  Lit(KeyPrefix(inputs, penv, Runner)) \o Lit(Dash)
            \o digest(EnvHasher(keyGo, penv, KeyEnvs(inputs, penv)))
            \o Lit(Dash) \o digest(FilesHasher(files, existing))

\* C5: when the manifest of some declared module does not exist, the builder
\* still succeeds, and its cache key is the one the existing manifests give.
C5_MissingManifestIsNoError ==
    (lastOp.kind # "none" /\ MissingManifests # {}) =>
        built.ok /\ built.config.cacheKey = KeyOfExistingManifests

\* C7 as stated: with a shared key, runs that differ only in the job
\* identifier or only in the extra key have the same keys; without one,
\* runs that differ only in the job identifier have different keys.
C7_PrefixExclusivity_Stated ==
    /\ (SharedKeyGiven /\ (JobChanged \/ KeyChanged)) => SameKeys
    /\ (~SharedKeyGiven /\ JobChanged /\ BothBuilt) => DifferentKeys

\* C7 as amended: the same, the first half only when the variable that
\* carries the differing value (GITHUB_JOB for the job identifier, INPUT_KEY
\* for the extra key) starts with no word of `env-vars` (neither starts with
\* a builtin prefix), since a watched variable is hashed into the
\* environment digest.
C7_PrefixExclusivity ==
    /\ (SharedKeyGiven /\ JobChanged /\ ~Watched(GITHUB_JOB)) => SameKeys
    /\ (SharedKeyGiven /\ KeyChanged /\ ~Watched(InputVar("key"))) => SameKeys
    /\ (~SharedKeyGiven /\ JobChanged /\ BothBuilt) => DifferentKeys

\* with a shared key, the job identifier changes from one value to another
\* and the keys stay
C7_Witness ==
    /\ BothBuilt /\ SharedKeyGiven /\ JobChanged /\ ~Watched(GITHUB_JOB)
    /\ lastOp.was # <<>> /\ lastOp.now # <<>>
    /\ SameKeys

\* C8 as stated: adding or removing a watched variable that has a value
\* changes both keys; adding, removing or changing a variable that is not
\* watched, or that has no value, changes neither.
C8_EnvironmentSensitivity_Stated ==
    /\ (ValueAddedOrRemoved /\ Watched(lastOp.name) /\ BothBuilt) => DifferentKeys
    /\ (lastOp.kind = "env" /\ ~Watched(lastOp.name)) => SameKeys
    /\ EmptyAddedOrRemoved => SameKeys

\* C8 as amended: an unwatched variable changes neither key unless it is
\* GITHUB_JOB and no shared key is given, when its value is the job segment
\* of the key prefix.
C8_EnvironmentSensitivity ==
    /\ (ValueAddedOrRemoved /\ Watched(lastOp.name) /\ BothBuilt) => DifferentKeys
    /\ (lastOp.kind = "env" /\ ~Watched(lastOp.name)
            /\ (lastOp.name # GITHUB_JOB \/ SharedKeyGiven)) => SameKeys
    /\ EmptyAddedOrRemoved => SameKeys

\* a variable watched through `env-vars` is added with a value, beside a
\* variable that is already there, and the keys change
C8_Witness ==
    /\ BothBuilt /\ ValueAddedOrRemoved /\ lastOp.nowSet
    /\ lastOp.name = FOO /\ Watched(FOO)
    /\ Len(env) > 1
    /\ DifferentKeys

\* C9: runs that differ only in the order of the declared modules, in a
\* module being declared twice, or in the order in which the host
\* enumerates its environment variables, end alike and with the same keys.
C9_OrderIndependence ==
    lastOp.kind \in {"swap-env", "permute-modules", "duplicate-module"} => SameKeys

(***************************************************************************)
(* The job: the restore step, the job's own work, the post step.           *)
(***************************************************************************)
SaveIfInputs == {<<>>, TrueText, <<"T", "r", "u", "e">>, <<"f", "a", "l", "s", "e">>}
CacheOnFailureInputs == {<<>>, TrueText}

JobInputs ==
    {[DefaultInputs EXCEPT !["save-if"] = s, !["cache-on-failure"] = f]
       : s \in SaveIfInputs, f \in CacheOnFailureInputs}

JobEnvs ==
    { <<>>,
      << <<GITHUB_JOB, <<"a">>>> >>,
      << <<RUNNER_OS, MacOS>>, <<GITHUB_JOB, <<"a">>>> >> }

Init ==
    /\ inputs \in JobInputs
    /\ env \in JobEnvs
    /\ files \in {AllManifests, <<>>}
    /\ goOutput \in {GoReported, GoUnreachable}
    /\ built = NotBuilt
    /\ prev = NotBuilt
    /\ lastOp = NoOp
    /\ pc = "restore"
    /\ provider \in [available : BOOLEAN]
    /\ store = <<>>
    /\ restored = NotRestored
    /\ phase1 = EmptyConfig
    /\ jobFailed = FALSE
    /\ post = NotRun

\* The restore step.  Without the provider's feature it does nothing; a
\* failing key builder is reported and nothing is persisted; otherwise
\* provider.restore([cacheKey, restoreKey], cachePaths) returns the key it
\* matched or none, and the step persists the empty marker on an exact match
\* and the serialized configuration otherwise.
RestoreRun ==
    /\ pc = "restore"
    /\ pc' = "job"
    /\ UNCHANGED <<inputs, env, files, goOutput, prev, lastOp, provider,
                   jobFailed, post>>
    /\ IF ~provider.available
       THEN UNCHANGED <<built, store, restored, phase1>>
       ELSE /\ built' = Build
            /\ IF ~Build.ok
               THEN UNCHANGED <<store, restored, phase1>>
               ELSE /\ phase1' = Build.config
                    /\ \E matched \in {Build.config.cacheKey,
                                       Build.config.restoreKey, <<>>} :
                          /\ restored' = [called |-> TRUE, matched |-> matched]
                          /\ store' = IF matched = Build.config.cacheKey
                                      THEN saveState(store, STATE_CONFIG, <<>>)
                                      ELSE CacheConfig_saveState(store, Build.config)

\* the environments the post step may find after the job's own work
LaterEnvs(e) ==
    {e}
    \cup {Append(e, <<CC, <<"a">>>>)}
    \cup {[e EXCEPT ![i] = <<GITHUB_JOB, <<"b">>>>] :
             i \in {j \in 1..Len(e) : e[j][1] = GITHUB_JOB}}

\* The job's own steps run between the two steps of the action: they succeed
\* or fail, and the post step, a process of its own, may find another
\* environment and another availability of the provider's feature.
JobRuns ==
    /\ pc = "job"
    /\ pc' = "post"
    /\ env' \in LaterEnvs(env)
    /\ jobFailed' \in BOOLEAN
    /\ provider' \in [available : BOOLEAN]
    /\ UNCHANGED <<inputs, files, goOutput, built, prev, lastOp, store,
                   restored, phase1, post>>

\* The post step: run() of save.ts, against a backend whose save and whose
\* purge may fail.
SaveRun ==
    /\ pc = "post"
    /\ pc' = "done"
    /\ \E saveThrows, purgeThrows \in BOOLEAN :
          post' = run(inputs, ProcessEnv(inputs, env), store, provider.available,
                      saveThrows, purgeThrows)
    /\ UNCHANGED <<inputs, env, files, goOutput, built, prev, lastOp, provider,
                   store, restored, phase1, jobFailed>>

Next ==
    \/ RestoreRun
    \/ JobRuns
    \/ SaveRun

Spec == Init /\ [][Next]_vars

(***************************************************************************)
(* Claims about the post step, checked under Spec.                         *)
(***************************************************************************)
Done == pc = "done"

\* the restore step got an exact match on the cache key
ExactMatch == restored.called /\ restored.matched = phase1.cacheKey

\* the restore step persisted the serialized configuration
FullConfigPersisted == STATE_CONFIG \in DOMAIN store /\ store[STATE_CONFIG] # <<>>

\* the `save-if` input is "true" in any case, or empty
SaveIfTrue == toLowerCase(getInput(inputs, "save-if")) \in {<<>>, TrueText}

GateOpen == provider.available /\ SaveIfTrue

UpToDateLogged == "Cache up-to-date." \in Range(post.info)

\* C1: after an exact restore match the post step makes no provider-save
\* call, whatever the other inputs are.
C1_Idempotence == (Done /\ ExactMatch) => post.saveCalls = <<>>

C1_Witness ==
    Done /\ ExactMatch /\ GateOpen /\ store[STATE_CONFIG] = <<>> /\ UpToDateLogged

C3_SaveGate ==
    (Done /\ (~provider.available \/ ~SaveIfTrue)) =>
        post.stateReads = 0 /\ post.saveCalls = <<>>

\* the gate is closed by one condition alone while a configuration waits
C3_Witness ==
    /\ Done /\ FullConfigPersisted /\ post.ran
    /\ \/ provider.available /\ ~SaveIfTrue
       \/ ~provider.available /\ getInput(inputs, "save-if") = <<"T", "r", "u", "e">>

\* C4: when `cache-on-failure` is not "true" and the job has failed, the
\* post step never calls provider.save.
C4_NoSaveAfterFailure ==
    (Done /\ jobFailed /\ toLowerCase(getInput(inputs, "cache-on-failure")) # TrueText)
        => post.saveCalls = <<>>

SaveFailed == \E i \in 1..Len(post.saveCalls) : post.saveCalls[i].threw

\* C6: a provider.save call that raises is caught and reported as a warning,
\* and the post step ends without an error leaving run() and with exit
\* code 0.
C6_SaveFailureIsWarning ==
    (Done /\ SaveFailed) =>
        /\ \E i \in 1..Len(post.reported) :
              post.reported[i] = [level |-> "warning", message |-> SaveError]
        /\ ~post.unhandled
        /\ post.ending = "process.exit"
        /\ post.exitCode = 0

C6_Witness == Done /\ SaveFailed /\ Len(post.reported) = 1

====
